---- MODULE Spec2Model ----
(***************************************************************************)
(* Redemption of a PrintingV2 bid (redeem_printing_v2_bid.rs): the edition *)
(* window of a winning config, the prize tracking ticket that freezes the  *)
(* master edition supply, and the edition handed to mint_edition.          *)
(*                                                                         *)
(* Rust indexes from 0, TLA+ sequences from 1: winning_configs[n] of the   *)
(* source is winning_configs[n + 1] here; winning_index stays 0-based.     *)
(***************************************************************************)
EXTENDS Integers, Sequences, FiniteSets, TLC

\* winning_configs  the auction manager's settings (fixed once the auction runs)
\* tickets          the data of each prize tracking ticket account
\* supply           the supply of the master edition of each mint
\* last             the call of the running transaction: what it read, the external
\*                  calls it made, its result (NoCall between transactions)
\* allocations      per ticket, the allocations committed so far (history)
\* earlier          one earlier successful allocation (history, SpecHistory only)
\* calc             the result of one window computation (SpecWindow only)
VARIABLES winning_configs, tickets, supply, last, allocations, earlier, calc

vars == <<winning_configs, tickets, supply, last, allocations, earlier, calc>>

(***************************************************************************)
(* Bounds.  The amount of an item is a u8 and the sums of the window loop  *)
(* are u64.  Both widths are scaled down: amounts range over Amounts, and  *)
(* U64Max, the largest value of the wide type, is the largest sum the      *)
(* window loop can form, 1 + MaxAmount * MaxConfigs (in the program        *)
(* 1 + 255 * len is far below 2^64 - 1).  Checked additions fail above     *)
(* U64Max, unchecked ones wrap.                                            *)
(***************************************************************************)
MaxConfigs == 2

Amounts == 0 .. 1

MaxAmount == Cardinality(Amounts) - 1

U64Max == 1 + MaxAmount * MaxConfigs

SafetyDepositBoxes == 0 .. 1

ItemCounts == 0 .. 2

Mints == {"mintA", "mintB"}

NA == 0 - 1

Overflow == NA

NoAccount == <<>>

NoMetadata == [key |-> NoAccount, mint |-> "none"]

(***************************************************************************)
(* Data.                                                                   *)
(***************************************************************************)
WinningConfigItem == [safety_deposit_box_index : SafetyDepositBoxes, amount : Amounts]

ItemLists == UNION {[1 .. n -> WinningConfigItem] : n \in ItemCounts}

WinningConfig == [items : ItemLists]

AuctionSettings == UNION {[1 .. n -> WinningConfig] : n \in 0 .. MaxConfigs}

Item(box, amt) == [safety_deposit_box_index |-> box, amount |-> amt]

\* Two auctions the redemption model runs on: one whose winners take prints of
\* two boxes, one with a zero amount and a repeated box.
SampleShared == << [items |-> <<Item(0, MaxAmount)>>], [items |-> <<Item(1, 1), Item(0, 1)>>] >>

SampleRepeated == << [items |-> <<Item(1, 0), Item(1, 1)>>], [items |-> <<Item(1, 1), Item(0, 1)>>] >>

RedeemedAuctions == {SampleShared, SampleRepeated}

\* The metadata account of a mint: its address, and the mint stored in its data.
MetadataOf(m) == [key |-> <<"metadata", m>>, mint |-> m]

Metadata == {MetadataOf(m) : m \in Mints}

\* The address derived from PREFIX, the program, the auction manager and the mint.
PrizeTrackingTicketAddress(metadata_mint) == <<"metaplex", "auction_manager", metadata_mint>>

Locations == {PrizeTrackingTicketAddress(m) : m \in Mints}

EmptyData == [key |-> "Uninitialized"]

data_is_empty(account) == account = EmptyData

Min(S) == CHOOSE x \in S : \A y \in S : x <= y

(***************************************************************************)
(* Arithmetic.                                                             *)
(***************************************************************************)
wrapping_add(a, b) == (a + b) % (U64Max + 1)

off_by_one_add(a, b) == IF a + b > U64Max THEN Overflow ELSE a + b - 1

checked_add(a, b) == IF a + b > U64Max THEN Overflow ELSE a + b

\* += and + on u64 (the window loop): not checked.
unchecked_add_u8(a, b) == (a + b) % (MaxAmount + 1)

unchecked_add(a, b) == (a + b) % (U64Max + 1)

(***************************************************************************)
(* count_item_amount_by_safety_deposit_order: the amount of the first item *)
(* of the list for the box, 0 when there is none.                          *)
(***************************************************************************)
\* The amounts of all items of the box, added up.
RECURSIVE SumMatchingUpTo(_, _, _)
SumMatchingUpTo(items, n, safety_deposit_index) ==
    IF n = 0 THEN 0
    ELSE SumMatchingUpTo(items, n - 1, safety_deposit_index)
         + (IF items[n].safety_deposit_box_index = safety_deposit_index
            THEN items[n].amount ELSE 0)

count_item_amount_of_all_matches(items, safety_deposit_index) ==
    SumMatchingUpTo(items, Len(items), safety_deposit_index)

count_item_amount_by_safety_deposit_order(items, safety_deposit_index) ==
    LET found == {i \in 1 .. Len(items) :
                    items[i].safety_deposit_box_index = safety_deposit_index}
    IN  IF found = {} THEN 0 ELSE items[Min(found)].amount

(***************************************************************************)
(* The loop of process_redeem_printing_v2_bid over the winning configs,    *)
(* from iteration n on, with acc the two sums so far.                      *)
(***************************************************************************)
RECURSIVE TabulateFrom(_, _, _, _, _, _)
TabulateFrom(configs, n, winning_index, safety_deposit_box_order, ticket_is_empty, acc) ==
    IF n >= Len(configs) THEN acc
    ELSE
      LET matching == count_item_amount_by_safety_deposit_order(
                          configs[n + 1].items, safety_deposit_box_order)
          min_next == IF n < winning_index
                      THEN unchecked_add(acc.edition_offset_min, matching)
                      ELSE acc.edition_offset_min
      IN  IF ticket_is_empty
          THEN TabulateFrom(configs, n + 1, winning_index, safety_deposit_box_order,
                            ticket_is_empty,
                            [edition_offset_min |-> min_next,
                             expected_redemptions |->
                                 unchecked_add(acc.expected_redemptions, matching)])
          ELSE IF n >= winning_index
          THEN [acc EXCEPT !.edition_offset_min = min_next]
          ELSE TabulateFrom(configs, n + 1, winning_index, safety_deposit_box_order,
                            ticket_is_empty,
                            [acc EXCEPT !.edition_offset_min = min_next])

Tabulate_from_zero(configs, winning_index, safety_deposit_box_order, ticket_is_empty) ==
    TabulateFrom(configs, 0, winning_index, safety_deposit_box_order, ticket_is_empty,
                 [edition_offset_min |-> 0, expected_redemptions |-> 0])

Tabulate_never_totals(configs, winning_index, safety_deposit_box_order, ticket_is_empty) ==
    TabulateFrom(configs, 0, winning_index, safety_deposit_box_order, FALSE,
                 [edition_offset_min |-> 1, expected_redemptions |-> 0])

\* The loop on an existing ticket stops one winning config early.
Tabulate_breaks_early(configs, winning_index, safety_deposit_box_order, ticket_is_empty) ==
    TabulateFrom(configs, 0, IF ticket_is_empty THEN winning_index ELSE winning_index - 1,
                 safety_deposit_box_order, ticket_is_empty,
                 [edition_offset_min |-> 1, expected_redemptions |-> 0])

Tabulate(configs, winning_index, safety_deposit_box_order, ticket_is_empty) ==
    TabulateFrom(configs, 0, winning_index, safety_deposit_box_order, ticket_is_empty,
                 [edition_offset_min |-> 1, expected_redemptions |-> 0])

edition_offset_max(configs, winning_index, safety_deposit_box_order, edition_offset_min) ==
    unchecked_add(edition_offset_min,
                  count_item_amount_by_safety_deposit_order(
                      configs[winning_index + 1].items, safety_deposit_box_order))

invalid_edition_number_inclusive(edition_offset, offset_min, offset_max) ==
    edition_offset < offset_min \/ edition_offset > offset_max

\* The test that rejects an edition offset outside [offset_min, offset_max).
invalid_edition_number(edition_offset, offset_min, offset_max) ==
    edition_offset < offset_min \/ edition_offset >= offset_max

(***************************************************************************)
(* create_or_update_prize_tracking, on a copy of the accounts.  ext names  *)
(* the external call that fails when it is reached ("ok": none does);      *)
(* master_supply is what get_supply_off_master_edition reads.  A freshly   *)
(* allocated account is zeroed, then written field by field.               *)
(***************************************************************************)
new_ticket_zero_redemptions(metadata, supply_snapshot, expected_redemptions) ==
    [key |-> "PrizeTrackingTicketV1", metadata |-> metadata.key,
     supply_snapshot |-> supply_snapshot, expected_redemptions |-> expected_redemptions,
     redemptions |-> 0]

\* The fields written to a new ticket.
new_ticket(metadata, supply_snapshot, expected_redemptions) ==
    [key |-> "PrizeTrackingTicketV1", metadata |-> metadata.key,
     supply_snapshot |-> supply_snapshot, expected_redemptions |-> expected_redemptions,
     redemptions |-> 1]

\* The branch taken when the ticket account holds no data.
create_prize_tracking(accounts, prize_tracking_ticket, metadata, master_supply, expected_redemptions, ext) ==
    IF ext = "create_or_allocate_account_raw"
    THEN [result |-> "Err(create_or_allocate_account_raw)", accounts |-> accounts,
          supply_snapshot |-> NA, events |-> <<"create_or_allocate_account_raw">>]
    ELSE IF ext = "get_supply_off_master_edition"
    THEN [result |-> "Err(get_supply_off_master_edition)",
          accounts |-> [accounts EXCEPT ![prize_tracking_ticket] =
                           [key |-> "PrizeTrackingTicketV1", metadata |-> metadata.key,
                            supply_snapshot |-> 0, expected_redemptions |-> 0,
                            redemptions |-> 0]],
          supply_snapshot |-> NA,
          events |-> <<"create_or_allocate_account_raw", "get_supply_off_master_edition">>]
    ELSE [result |-> "Ok",
          accounts |-> [accounts EXCEPT ![prize_tracking_ticket] =
                           new_ticket(metadata, master_supply, expected_redemptions)],
          supply_snapshot |-> master_supply,
          events |-> <<"create_or_allocate_account_raw", "get_supply_off_master_edition">>]

\* The branch taken when the ticket account holds a ticket.
update_prize_tracking_capped(accounts, prize_tracking_ticket) ==
    LET next_redemptions == checked_add(accounts[prize_tracking_ticket].redemptions, 1)
    IN  IF \/ next_redemptions = Overflow
           \/ next_redemptions > accounts[prize_tracking_ticket].expected_redemptions
        THEN [result |-> "NumericalOverflowError", accounts |-> accounts,
              supply_snapshot |-> NA, events |-> <<>>]
        ELSE [result |-> "Ok",
              accounts |-> [accounts EXCEPT ![prize_tracking_ticket].redemptions =
                                                next_redemptions],
              supply_snapshot |-> accounts[prize_tracking_ticket].supply_snapshot,
              events |-> <<>>]

update_prize_tracking_requeries(accounts, prize_tracking_ticket) ==
    LET next_redemptions == checked_add(accounts[prize_tracking_ticket].redemptions, 1)
    IN  IF next_redemptions = Overflow
        THEN [result |-> "NumericalOverflowError", accounts |-> accounts,
              supply_snapshot |-> NA, events |-> <<"get_supply_off_master_edition">>]
        ELSE [result |-> "Ok",
              accounts |-> [accounts EXCEPT ![prize_tracking_ticket].redemptions =
                                                next_redemptions],
              supply_snapshot |-> accounts[prize_tracking_ticket].supply_snapshot,
              events |-> <<"get_supply_off_master_edition">>]

update_prize_tracking(accounts, prize_tracking_ticket) ==
    LET next_redemptions == checked_add(accounts[prize_tracking_ticket].redemptions, 1)
    IN  IF next_redemptions = Overflow
        THEN [result |-> "NumericalOverflowError", accounts |-> accounts,
              supply_snapshot |-> NA, events |-> <<>>]
        ELSE [result |-> "Ok",
              accounts |-> [accounts EXCEPT
                               ![prize_tracking_ticket].redemptions = next_redemptions],
              supply_snapshot |-> accounts[prize_tracking_ticket].supply_snapshot,
              events |-> <<>>]

create_or_update_resnapshot(accounts, prize_tracking_ticket, metadata, master_supply, expected_redemptions, ext) ==
    IF prize_tracking_ticket # PrizeTrackingTicketAddress(metadata.mint)
    THEN [result |-> "DerivationError", accounts |-> accounts,
          supply_snapshot |-> NA, events |-> <<>>]
    ELSE IF data_is_empty(accounts[prize_tracking_ticket])
    THEN create_prize_tracking(accounts, prize_tracking_ticket, metadata, master_supply,
                               expected_redemptions, ext)
    ELSE LET updated == update_prize_tracking(accounts, prize_tracking_ticket)
         IN  IF updated.result # "Ok" THEN updated
             ELSE [updated EXCEPT !.supply_snapshot = master_supply,
                                  !.accounts[prize_tracking_ticket].supply_snapshot =
                                      master_supply]

create_or_update_rewrites_expected(accounts, prize_tracking_ticket, metadata, master_supply, expected_redemptions, ext) ==
    IF prize_tracking_ticket # PrizeTrackingTicketAddress(metadata.mint)
    THEN [result |-> "DerivationError", accounts |-> accounts,
          supply_snapshot |-> NA, events |-> <<>>]
    ELSE IF data_is_empty(accounts[prize_tracking_ticket])
    THEN create_prize_tracking(accounts, prize_tracking_ticket, metadata, master_supply,
                               expected_redemptions, ext)
    ELSE LET updated == update_prize_tracking(accounts, prize_tracking_ticket)
         IN  IF updated.result # "Ok" THEN updated
             ELSE [updated EXCEPT !.accounts[prize_tracking_ticket].expected_redemptions =
                                      expected_redemptions]

create_or_update_underived(accounts, prize_tracking_ticket, metadata, master_supply, expected_redemptions, ext) ==
    IF data_is_empty(accounts[prize_tracking_ticket])
    THEN create_prize_tracking(accounts, prize_tracking_ticket, metadata, master_supply,
                               expected_redemptions, ext)
    ELSE update_prize_tracking(accounts, prize_tracking_ticket)

create_or_update_prize_tracking(accounts, prize_tracking_ticket, metadata, master_supply, expected_redemptions, ext) ==
    IF prize_tracking_ticket # PrizeTrackingTicketAddress(metadata.mint)
    THEN [result |-> "DerivationError", accounts |-> accounts,
          supply_snapshot |-> NA, events |-> <<>>]
    ELSE IF data_is_empty(accounts[prize_tracking_ticket])
    THEN create_prize_tracking(accounts, prize_tracking_ticket, metadata, master_supply,
                               expected_redemptions, ext)
    ELSE update_prize_tracking(accounts, prize_tracking_ticket)

\* The external calls of create_or_update_prize_tracking that can fail on this account.
TicketCalls(account) ==
    IF data_is_empty(account)
    THEN {"ok", "create_or_allocate_account_raw", "get_supply_off_master_edition"}
    ELSE {"ok"}

(***************************************************************************)
(* What an instruction leaves behind: the accounts as written when it      *)
(* returns Ok(()), the accounts as they were when it returns an Err.       *)
(***************************************************************************)
ProgramResult_keeps_writes(result, before, after) == after

ProgramResult(result, before, after) == IF result = "Ok" THEN after ELSE before

NoCall ==
    [result |-> "none", events |-> <<>>, cancelled |-> FALSE, win_index |-> NA,
     safety_deposit_box_order |-> NA, edition_offset |-> NA, ticket |-> NoAccount,
     metadata |-> NoMetadata, ticket_was_empty |-> FALSE, edition_offset_min |-> NA,
     edition_offset_max |-> NA, expected_redemptions |-> NA, supply_snapshot |-> NA,
     actual_edition |-> NA, winning_config_type |-> "none"]

NoCalc ==
    [winning_index |-> NA, safety_deposit_box_order |-> NA, ticket_is_empty |-> FALSE,
     edition_offset_min |-> NA, edition_offset_max |-> NA, expected_redemptions |-> NA]

\* The instruction returns: result, the accounts it worked on, and the record of the call.
Return(result, working, call) ==
    /\ tickets' = ProgramResult(result, tickets, working)
    /\ last' = [call EXCEPT !.result = result]
    /\ allocations' =
          IF result = "Ok" /\ call.supply_snapshot # NA
          THEN [allocations EXCEPT ![call.ticket] = @ + 1]
          ELSE allocations
    /\ UNCHANGED <<winning_configs, supply, earlier, calc>>

\* common_redeem_finish, then Ok(()).
Finish_unrecorded(working, call) == Return("Ok", working, call)

Finish(working, call) ==
    \E finished \in BOOLEAN :
        Return(IF finished THEN "Ok" ELSE "Err(common_redeem_finish)", working,
               [call EXCEPT !.events = Append(@, "common_redeem_finish")])

WinningConfigTypes == {"PrintingV2", "TokenOnlyTransfer"}

\* winning_config_item.winning_config_type != WinningConfigType::PrintingV2
wrong_bid_endpoint_never(winning_config_type) == FALSE

wrong_bid_endpoint(winning_config_type) == winning_config_type # "PrintingV2"

Offsets == 0 .. U64Max

(***************************************************************************)
(* process_redeem_printing_v2_bid.  Every value the instruction reads from *)
(* its arguments, its accounts or an external call is chosen where the     *)
(* code first reads it.                                                    *)
(***************************************************************************)
process_redeem_printing_v2_bid ==
  \E upstream \in {"ok", "Err(get_amount_from_token_account)", "Err(assert_is_ata)",
                   "ProvidedAccountDoesNotContainOneToken", "Err(common_redeem_checks)",
                   "Err(assert_owned_by)"} :
    IF upstream # "ok" THEN Return(upstream, tickets, NoCall)
    ELSE
    \E cancelled \in BOOLEAN :
    \E win_index \in IF cancelled THEN {NA} ELSE {NA} \cup (0 .. MaxConfigs) :
      LET call0 == [NoCall EXCEPT !.cancelled = cancelled, !.win_index = win_index]
      IN
      IF cancelled \/ win_index = NA \/ win_index >= Len(winning_configs)
      THEN Finish(tickets, call0)
      ELSE
      \E safety_deposit_box_order \in SafetyDepositBoxes,
         checked \in WinningConfigTypes \cup {"Err(common_winning_config_checks)"} :
        LET call1 == [call0 EXCEPT !.safety_deposit_box_order = safety_deposit_box_order]
        IN
        IF checked = "Err(common_winning_config_checks)" THEN Return(checked, tickets, call1)
        ELSE
        \E edition_offset \in Offsets :
        LET call2 == [call1 EXCEPT !.edition_offset = edition_offset,
                                   !.winning_config_type = checked]
        IN
        IF wrong_bid_endpoint(checked)
        THEN Return("WrongBidEndpointForPrize", tickets, call2)
        ELSE
        \E derived \in BOOLEAN :
          IF ~derived THEN Return("Err(assert_derivation)", tickets, call1)
          ELSE
          \E prize_tracking_ticket \in Locations :
            LET empty == data_is_empty(tickets[prize_tracking_ticket])
                sums == Tabulate(winning_configs, win_index, safety_deposit_box_order, empty)
                offset_max == edition_offset_max(winning_configs, win_index,
                                  safety_deposit_box_order, sums.edition_offset_min)
                window == [call2 EXCEPT !.edition_offset_min = sums.edition_offset_min,
                                        !.edition_offset_max = offset_max]
            IN
            IF invalid_edition_number(edition_offset, sums.edition_offset_min, offset_max)
            THEN Return("InvalidEditionNumber", tickets, window)
            ELSE
            \E metadata \in Metadata, ext \in TicketCalls(tickets[prize_tracking_ticket]) :
              LET tracked == create_or_update_prize_tracking(
                                 tickets, prize_tracking_ticket, metadata,
                                 supply[metadata.mint], sums.expected_redemptions, ext)
                  call3 == [window EXCEPT !.ticket = prize_tracking_ticket,
                                          !.ticket_was_empty = empty,
                                          !.expected_redemptions =
                                              sums.expected_redemptions,
                                          !.metadata = metadata,
                                         !.events = tracked.events,
                                         !.supply_snapshot = tracked.supply_snapshot]
              IN
              IF tracked.result # "Ok" THEN Return(tracked.result, tracked.accounts, call3)
              ELSE
              LET actual_edition == checked_add(edition_offset, tracked.supply_snapshot)
              IN
              IF actual_edition = Overflow
              THEN Return("NumericalOverflowError", tracked.accounts, call3)
              ELSE
              LET call4 == [call3 EXCEPT !.actual_edition = actual_edition,
                                         !.events = Append(@, "mint_edition")]
              IN
              \E minted \in BOOLEAN :
                IF ~minted THEN Return("Err(mint_edition)", tracked.accounts, call4)
                ELSE Finish(tracked.accounts, call4)

\* One transaction at a time runs the instruction.
Redeem == last = NoCall /\ process_redeem_printing_v2_bid

\* Prints made outside this instruction raise the supply of a master edition.
SupplyLevels == {1, U64Max - 1}

MasterEditionSupplyGrows ==
    \E m \in Mints, s \in SupplyLevels :
        /\ last = NoCall
        /\ s > supply[m]
        /\ supply' = [supply EXCEPT ![m] = s]
        /\ UNCHANGED <<winning_configs, tickets, last, allocations, earlier, calc>>

\* The transaction is over: the next instruction starts with no call on record.
EndTransaction ==
    /\ last # NoCall
    /\ last' = NoCall
    /\ UNCHANGED <<winning_configs, tickets, supply, allocations, earlier, calc>>

Init ==
    /\ winning_configs \in RedeemedAuctions
    /\ tickets = [a \in Locations |-> EmptyData]
    /\ supply = [m \in Mints |-> 0]
    /\ last = NoCall
    /\ allocations = [a \in Locations |-> 0]
    /\ earlier = NoCall
    /\ calc = NoCalc

Next == Redeem \/ MasterEditionSupplyGrows \/ EndTransaction

Spec == Init /\ [][Next]_vars

(***************************************************************************)
(* The same program, with one earlier successful allocation kept on record *)
(* (any of them: the transaction that made it may end by Remember).        *)
(***************************************************************************)
Allocated(call) == call.result = "Ok" /\ call.actual_edition # NA

Remember ==
    /\ Allocated(last)
    /\ earlier' = last
    /\ last' = NoCall
    /\ UNCHANGED <<winning_configs, tickets, supply, allocations, calc>>

InitHistory == Init /\ winning_configs = SampleShared

NextHistory == Redeem \/ MasterEditionSupplyGrows \/ EndTransaction \/ Remember

SpecHistory == InitHistory /\ [][NextHistory]_vars

(***************************************************************************)
(* The window computation alone, on every auction within the bounds.       *)
(***************************************************************************)
ComputeWindow ==
    \E winning_index \in 0 .. Len(winning_configs) - 1,
       safety_deposit_box_order \in SafetyDepositBoxes, ticket_is_empty \in BOOLEAN :
        LET sums == Tabulate(winning_configs, winning_index, safety_deposit_box_order,
                             ticket_is_empty)
        IN  /\ calc = NoCalc
            /\ calc' = [winning_index |-> winning_index,
                        safety_deposit_box_order |-> safety_deposit_box_order,
                        ticket_is_empty |-> ticket_is_empty,
                        edition_offset_min |-> sums.edition_offset_min,
                        edition_offset_max |->
                            edition_offset_max(winning_configs, winning_index,
                                safety_deposit_box_order, sums.edition_offset_min),
                        expected_redemptions |-> sums.expected_redemptions]
            /\ UNCHANGED <<winning_configs, tickets, supply, last, allocations, earlier>>

InitWindow ==
    /\ winning_configs \in AuctionSettings
    /\ tickets = [a \in Locations |-> EmptyData]
    /\ supply = [m \in Mints |-> 0]
    /\ last = NoCall
    /\ allocations = [a \in Locations |-> 0]
    /\ earlier = NoCall
    /\ calc = NoCalc

NextWindow == ComputeWindow

SpecWindow == InitWindow /\ [][NextWindow]_vars

(***************************************************************************)
(* Properties.                                                             *)
(***************************************************************************)
Called(call, name) == \E i \in DOMAIN call.events : call.events[i] = name

\* The total claimed for a box: the sum, over the first n winning configs, of
\* the amount each claims for it.
RECURSIVE TotalClaimedUpTo(_, _, _)
TotalClaimedUpTo(configs, n, box) ==
    IF n = 0 THEN 0
    ELSE TotalClaimedUpTo(configs, n - 1, box)
         + count_item_amount_by_safety_deposit_order(configs[n].items, box)

TotalClaimed(configs, box) == TotalClaimedUpTo(configs, Len(configs), box)

\* The windows of all winning indexes for a box, as the instruction computes them.
WindowMins(box, empty) ==
    [i \in 0 .. Len(winning_configs) - 1 |->
        Tabulate(winning_configs, i, box, empty).edition_offset_min]

WindowMaxs(box, empty, mins) ==
    [i \in 0 .. Len(winning_configs) - 1 |->
        edition_offset_max(winning_configs, i, box, mins[i])]

\* C1: for every list of winning configs and every box, the windows
\* [min, max) of winning indexes 0 .. N-1 are contiguous and pairwise
\* disjoint, and their union is [1, 1 + total claimed).
C1_WindowsPartition ==
    calc # NoCalc =>
        LET N == Len(winning_configs)
            lo == WindowMins(calc.safety_deposit_box_order, calc.ticket_is_empty)
            hi == WindowMaxs(calc.safety_deposit_box_order, calc.ticket_is_empty, lo)
        IN  /\ calc.edition_offset_min = lo[calc.winning_index]
            /\ calc.edition_offset_max = hi[calc.winning_index]
            /\ \A i \in 0 .. N - 1 : lo[i] <= hi[i]
            /\ lo[0] = 1
            /\ \A i \in 0 .. N - 2 : hi[i] = lo[i + 1]
            /\ \A i, j \in 0 .. N - 1 :
                  i # j => (lo[i] .. hi[i] - 1) \cap (lo[j] .. hi[j] - 1) = {}
            /\ UNION {lo[i] .. hi[i] - 1 : i \in 0 .. N - 1}
                  = 1 .. TotalClaimed(winning_configs, calc.safety_deposit_box_order)

\* C1 witness: the window of the second winner was computed, next to a
\* non-empty window of the first.
C1_Witness ==
    /\ calc.winning_index = 1
    /\ calc.edition_offset_min = 2
    /\ calc.edition_offset_max = 3

\* C2: two successful allocations made for different winning configs against
\* the same prize tracking ticket never hand mint_edition the same edition,
\* whichever safety deposit box each claim came from.
C2_DistinctEditionsPerTicket ==
    (/\ Allocated(earlier) /\ Allocated(last)
     /\ earlier.ticket = last.ticket
     /\ earlier.win_index # last.win_index)
        => earlier.actual_edition # last.actual_edition

\* Beside C2: the same statement for two claims on the same safety deposit box.
DistinctEditionsPerTicketAndBox ==
    (/\ Allocated(earlier) /\ Allocated(last)
     /\ earlier.ticket = last.ticket
     /\ earlier.safety_deposit_box_order = last.safety_deposit_box_order
     /\ earlier.win_index # last.win_index)
        => earlier.actual_edition # last.actual_edition

\* C3: once a ticket exists its supply_snapshot never changes, and every later
\* create_or_update_prize_tracking on it returns that snapshot, also when the
\* master edition's supply has grown since.
C3_BaselineFrozen ==
    [][ /\ \A a \in Locations :
              ~data_is_empty(tickets[a]) =>
                  /\ ~data_is_empty(tickets'[a])
                  /\ tickets'[a].supply_snapshot = tickets[a].supply_snapshot
        /\ (last' # NoCall /\ last'.supply_snapshot # NA /\ ~last'.ticket_was_empty) =>
              last'.supply_snapshot = tickets[last'.ticket].supply_snapshot ]_vars

\* C3 witness: an allocation on an existing ticket succeeded while the supply
\* of the master edition was above the snapshot it returned.
C3_Witness ==
    /\ last.result = "Ok"
    /\ last.supply_snapshot # NA
    /\ ~last.ticket_was_empty
    /\ supply[last.metadata.mint] > last.supply_snapshot

\* C4: redemptions is 1 right after the creating call, never 0, and equals the
\* number of committed allocations against the ticket (one more per
\* allocation, never less).
C4_RedemptionsCountAllocations ==
    /\ \A a \in Locations :
          IF data_is_empty(tickets[a]) THEN allocations[a] = 0
          ELSE tickets[a].redemptions >= 1 /\ tickets[a].redemptions = allocations[a]
    /\ (last.result = "Ok" /\ last.supply_snapshot # NA /\ last.ticket_was_empty) =>
          tickets[last.ticket].redemptions = 1

\* C4 witness: a second allocation against a ticket was committed.
C4_Witness ==
    /\ last.result = "Ok"
    /\ last.supply_snapshot # NA
    /\ ~last.ticket_was_empty
    /\ tickets[last.ticket].redemptions = 2

\* C5: an edition offset outside the window of the winning config is rejected
\* with InvalidEditionNumber, before the ticket is created or updated and
\* before mint_edition is called.
C5_OutOfWindowRejected ==
    [][ (/\ last' # NoCall
         /\ last'.edition_offset_min # NA
         /\ \/ last'.edition_offset < last'.edition_offset_min
            \/ last'.edition_offset >= last'.edition_offset_max)
        => (/\ last'.result = "InvalidEditionNumber"
            /\ last'.events = <<>>
            /\ last'.supply_snapshot = NA
            /\ tickets' = tickets) ]_vars

\* C5 witness: the offset max of a non-empty window was requested and rejected.
C5_Witness ==
    /\ last.result = "InvalidEditionNumber"
    /\ last.edition_offset_min < last.edition_offset_max
    /\ last.edition_offset = last.edition_offset_max

\* C6: every successful allocation calls mint_edition with
\* edition_offset + the snapshot create_or_update_prize_tracking returned.
C6_EditionIsOffsetPlusBaseline ==
    /\ (last.result = "Ok" /\ last.supply_snapshot # NA) => Called(last, "mint_edition")
    /\ Called(last, "mint_edition") =>
          last.actual_edition = last.edition_offset + last.supply_snapshot

\* C6 witness: snapshot 1 and offset 2 gave edition 3.
C6_Witness ==
    /\ last.result = "Ok"
    /\ last.supply_snapshot = 1
    /\ last.edition_offset = 2
    /\ last.actual_edition = 3

\* C7: the expected_redemptions written with a new ticket is the total
\* claimed for the box over all winning configs, whichever winner creates it.
C7_ExpectedIsTotalClaimed ==
    (last.result = "Ok" /\ last.supply_snapshot # NA /\ last.ticket_was_empty) =>
        tickets[last.ticket].expected_redemptions
            = TotalClaimed(winning_configs, last.safety_deposit_box_order)

\* C7 witness: the last winner created the ticket, and winners before it
\* claim from the same box.
C7_Witness ==
    /\ last.result = "Ok"
    /\ last.supply_snapshot # NA
    /\ last.ticket_was_empty
    /\ last.win_index = Len(winning_configs) - 1
    /\ last.edition_offset_min > 1
    /\ tickets[last.ticket].expected_redemptions = 2

C9_RedemptionsOverflowFails ==
    [][ \A a \in Locations :
          (/\ last = NoCall /\ last' # NoCall
           /\ last'.ticket = a
           /\ a = PrizeTrackingTicketAddress(last'.metadata.mint)
           /\ ~data_is_empty(tickets[a])
           /\ tickets[a].redemptions = U64Max)
          => (/\ last'.result = "NumericalOverflowError"
              /\ last'.supply_snapshot = NA
              /\ tickets'[a] = tickets[a]) ]_vars

\* C9 witness: the call on a ticket whose counter is at the maximum failed.
C9_Witness ==
    /\ last.result = "NumericalOverflowError"
    /\ last.supply_snapshot = NA
    /\ tickets[last.ticket].redemptions = U64Max

\* C10: when edition_offset + snapshot exceeds the u64 range the instruction
\* fails with NumericalOverflowError and mint_edition is not called; an
\* edition handed to mint_edition is never a wrapped sum.
C10_EditionOverflowFails ==
    /\ (last.supply_snapshot # NA /\ last.edition_offset + last.supply_snapshot > U64Max)
          => (/\ last.result = "NumericalOverflowError"
              /\ ~Called(last, "mint_edition")
              /\ last.actual_edition = NA)
    /\ last.actual_edition # NA =>
          last.actual_edition = last.edition_offset + last.supply_snapshot

\* C10 witness: the sum overflowed after the ticket call had returned.
C10_Witness ==
    /\ last.result = "NumericalOverflowError"
    /\ last.supply_snapshot # NA
    /\ last.edition_offset + last.supply_snapshot > U64Max

\* C11: when the winning config item is not of type PrintingV2 the instruction
\* fails with WrongBidEndpointForPrize before the window is looked at (also
\* when the edition offset is outside the window), no ticket is written and
\* mint_edition is not called.
C11_WrongPrizeTypeFirst ==
    [][ (/\ last = NoCall /\ last' # NoCall
         /\ last'.winning_config_type \notin {"none", "PrintingV2"})
        => (/\ last'.result = "WrongBidEndpointForPrize"
            /\ last'.edition_offset_min = NA
            /\ last'.events = <<>>
            /\ last'.supply_snapshot = NA
            /\ last'.actual_edition = NA
            /\ tickets' = tickets
            /\ allocations' = allocations) ]_vars

\* C11 witness: a prize of another type was asked for with an edition offset
\* that is also outside the window of the winning config.
C11_Witness ==
    /\ last.result = "WrongBidEndpointForPrize"
    /\ last.winning_config_type = "TokenOnlyTransfer"
    /\ \A empty \in BOOLEAN :
          LET sums == Tabulate(winning_configs, last.win_index,
                               last.safety_deposit_box_order, empty)
          IN  invalid_edition_number(last.edition_offset, sums.edition_offset_min,
                  edition_offset_max(winning_configs, last.win_index,
                      last.safety_deposit_box_order, sums.edition_offset_min))

\* C12: when the prize tracking ticket account handed in is not the address
\* derived from the auction manager and the metadata's mint,
\* create_or_update_prize_tracking fails with the derivation error, and no
\* ticket is created or changed, neither at the account handed in nor at the
\* derived address.
C12_DerivationMismatchFails ==
    [][ (/\ last = NoCall /\ last' # NoCall
         /\ last'.ticket # NoAccount
         /\ last'.ticket # PrizeTrackingTicketAddress(last'.metadata.mint))
        => (/\ last'.result = "DerivationError"
            /\ last'.events = <<>>
            /\ last'.supply_snapshot = NA
            /\ tickets'[last'.ticket] = tickets[last'.ticket]
            /\ tickets'[PrizeTrackingTicketAddress(last'.metadata.mint)]
                  = tickets[PrizeTrackingTicketAddress(last'.metadata.mint)]
            /\ tickets' = tickets) ]_vars

\* C12 witness: the ticket of another mint, which exists, was handed in while
\* the derived address holds no ticket yet.
C12_Witness ==
    /\ last.result = "DerivationError"
    /\ last.ticket # PrizeTrackingTicketAddress(last.metadata.mint)
    /\ ~data_is_empty(tickets[last.ticket])
    /\ data_is_empty(tickets[PrizeTrackingTicketAddress(last.metadata.mint)])

\* The allocation is skipped: the bid was cancelled, there is no winning
\* index, or the winning index is past the end of the winning configs.
Skipped(call) ==
    call.cancelled \/ call.win_index = NA \/ call.win_index >= Len(winning_configs)

\* C13: an instruction that returns Ok(()) called common_redeem_finish exactly
\* once, as its last call: right after mint_edition when an edition was
\* allocated, and as its only call, with no ticket written, when the
\* allocation was skipped; an instruction whose allocation failed did not
\* call it.
C13_FinishOnceAndLast ==
    [][ (last = NoCall /\ last' # NoCall) =>
        LET events == last'.events
            finishes == {i \in DOMAIN events : events[i] = "common_redeem_finish"}
        IN  /\ last'.result = "Ok" =>
                  /\ finishes = {Len(events)}
                  /\ IF Skipped(last')
                     THEN /\ events = <<"common_redeem_finish">>
                          /\ last'.actual_edition = NA
                          /\ tickets' = tickets
                          /\ allocations' = allocations
                     ELSE /\ last'.actual_edition # NA
                          /\ Len(events) >= 2
                          /\ events[Len(events) - 1] = "mint_edition"
                          /\ tickets' # tickets
            /\ last'.result \notin {"Ok", "Err(common_redeem_finish)"} => finishes = {}
            /\ Cardinality(finishes) <= 1 ]_vars

\* C13 witness: a redemption with a winning index past the end returned
\* Ok(()) after its one call, while a ticket of an earlier allocation exists.
C13_Witness ==
    /\ last.result = "Ok"
    /\ ~last.cancelled
    /\ last.win_index = Len(winning_configs)
    /\ last.events = <<"common_redeem_finish">>
    /\ \E a \in Locations : ~data_is_empty(tickets[a])

\* C14: create_or_update_prize_tracking on a ticket that exists writes only
\* redemptions: key, metadata, supply_snapshot and expected_redemptions keep
\* the values written at creation (the expected_redemptions handed to that
\* call is not stored), and a ticket that exists never becomes empty again.
C14_UpdateWritesOnlyRedemptions ==
    [][ \A a \in Locations :
          ~data_is_empty(tickets[a]) =>
              /\ ~data_is_empty(tickets'[a])
              /\ tickets'[a] = [tickets[a] EXCEPT !.redemptions = tickets'[a].redemptions]
              /\ tickets'[a].redemptions =
                    IF /\ last = NoCall /\ last'.result = "Ok"
                       /\ last'.ticket = a /\ last'.supply_snapshot # NA
                    THEN tickets[a].redemptions + 1
                    ELSE tickets[a].redemptions ]_vars

\* C14 witness: an allocation on an existing ticket was committed; the
\* expected_redemptions it handed in differs from the one the ticket keeps.
C14_Witness ==
    /\ last.result = "Ok"
    /\ last.supply_snapshot # NA
    /\ ~last.ticket_was_empty
    /\ last.expected_redemptions # tickets[last.ticket].expected_redemptions
    /\ tickets[last.ticket].expected_redemptions > 0

\* The calls of get_supply_off_master_edition an instruction made.
SupplyQueries(call) ==
    {i \in DOMAIN call.events : call.events[i] = "get_supply_off_master_edition"}

C16_WindowSameWithOrWithoutTicket ==
    calc # NoCalc =>
        LET box == calc.safety_deposit_box_order
            full == Tabulate(winning_configs, calc.winning_index, box, TRUE)
            short == Tabulate(winning_configs, calc.winning_index, box, FALSE)
            prefix == 1 + TotalClaimedUpTo(winning_configs, calc.winning_index, box)
        IN  /\ calc.edition_offset_min = prefix
            /\ calc.edition_offset_max = prefix + count_item_amount_by_safety_deposit_order(
                                              winning_configs[calc.winning_index + 1].items, box)
            /\ full.edition_offset_min = short.edition_offset_min
            /\ edition_offset_max(winning_configs, calc.winning_index, box,
                                  full.edition_offset_min)
                  = edition_offset_max(winning_configs, calc.winning_index, box,
                                       short.edition_offset_min)

\* C16 witness: on an existing ticket the loop counted the winning config
\* before the winning index and broke without tabulating the total.
C16_Witness ==
    /\ calc # NoCalc
    /\ ~calc.ticket_is_empty
    /\ calc.winning_index = 1
    /\ calc.edition_offset_min = 2
    /\ calc.expected_redemptions = 0
    /\ TotalClaimed(winning_configs, calc.safety_deposit_box_order) = 2

\* C17: count_item_amount_by_safety_deposit_order gives the amount of the
\* first item of the winning config that names the box, whatever later items
\* name it too, and 0 when no item names it; the width of the window and
\* expected_redemptions are made of these first-match amounts only.
C17_FirstMatchOnly ==
    calc # NoCalc =>
        LET box == calc.safety_deposit_box_order
            matching(c) == count_item_amount_by_safety_deposit_order(
                               winning_configs[c].items, box)
            FirstMatches(c) ==
                {i \in DOMAIN winning_configs[c].items :
                    /\ winning_configs[c].items[i].safety_deposit_box_index = box
                    /\ \A j \in 1 .. i - 1 :
                          winning_configs[c].items[j].safety_deposit_box_index # box}
            Sum[c \in 0 .. Len(winning_configs)] ==
                IF c = 0 THEN 0
                ELSE Sum[c - 1]
                     + (IF FirstMatches(c) = {} THEN 0
                        ELSE winning_configs[c].items[CHOOSE i \in FirstMatches(c) : TRUE].amount)
        IN  /\ \A c \in DOMAIN winning_configs :
                  /\ FirstMatches(c) = {} => matching(c) = 0
                  /\ \A i \in FirstMatches(c) :
                        matching(c) = winning_configs[c].items[i].amount
            /\ calc.edition_offset_min = 1 + Sum[calc.winning_index]
            /\ calc.edition_offset_max = 1 + Sum[calc.winning_index + 1]
            /\ calc.ticket_is_empty =>
                  calc.expected_redemptions = Sum[Len(winning_configs)]

\* C17 witness: the winning config names the box twice, first with amount 0
\* and then with amount 1, and its window is empty.
C17_Witness ==
    /\ calc # NoCalc
    /\ calc.ticket_is_empty
    /\ LET items == winning_configs[calc.winning_index + 1].items
       IN  /\ Len(items) = 2
           /\ items[1] = Item(calc.safety_deposit_box_order, 0)
           /\ items[2] = Item(calc.safety_deposit_box_order, 1)
    /\ calc.edition_offset_max = calc.edition_offset_min
    /\ calc.expected_redemptions = 0

\* C18: the unchecked sums of the window loop never wrap: with every amount
\* at most MaxAmount (255 for the u8 of the code) and N winning configs,
\* edition_offset_min, edition_offset_max and expected_redemptions are the
\* exact sums and stay at or below 1 + MaxAmount * N, within the u64 range.
C18_UncheckedSumsDoNotOverflow ==
    calc # NoCalc =>
        LET N == Len(winning_configs)
            box == calc.safety_deposit_box_order
            before == TotalClaimedUpTo(winning_configs, calc.winning_index, box)
            upto == TotalClaimedUpTo(winning_configs, calc.winning_index + 1, box)
        IN  /\ calc.edition_offset_min = 1 + before
            /\ calc.edition_offset_max = 1 + upto
            /\ calc.expected_redemptions =
                  IF calc.ticket_is_empty THEN TotalClaimed(winning_configs, box) ELSE 0
            /\ calc.edition_offset_min <= 1 + MaxAmount * N
            /\ calc.edition_offset_max <= 1 + MaxAmount * N
            /\ calc.expected_redemptions <= 1 + MaxAmount * N
            /\ 1 + MaxAmount * N <= U64Max

\* C18 witness: every winning config claims the largest amount of the box and
\* the window of the last one ends at the bound.
C18_Witness ==
    /\ calc # NoCalc
    /\ Len(winning_configs) = MaxConfigs
    /\ calc.winning_index = MaxConfigs - 1
    /\ calc.ticket_is_empty
    /\ calc.edition_offset_max = 1 + MaxAmount * MaxConfigs
    /\ calc.expected_redemptions = MaxAmount * MaxConfigs

\* C19: no allocation is refused for the number of redemptions: a request
\* inside its window on a ticket whose redemptions is already at or above
\* expected_redemptions (and below the largest u64) gets its snapshot from
\* create_or_update_prize_tracking, and when the instruction returns Ok(())
\* redemptions has grown by one, beyond expected_redemptions.
C19_RedemptionsNotCapped ==
    [][ \A a \in Locations :
          (/\ last = NoCall /\ last' # NoCall
           /\ last'.ticket = a
           /\ a = PrizeTrackingTicketAddress(last'.metadata.mint)
           /\ ~data_is_empty(tickets[a])
           /\ tickets[a].redemptions >= tickets[a].expected_redemptions
           /\ tickets[a].redemptions < U64Max)
          => (/\ last'.supply_snapshot = tickets[a].supply_snapshot
              /\ last'.result \in {"Ok", "NumericalOverflowError", "Err(mint_edition)",
                                    "Err(common_redeem_finish)"}
              /\ last'.result = "NumericalOverflowError" =>
                    last'.edition_offset + last'.supply_snapshot > U64Max
              /\ last'.result = "Ok" =>
                    /\ tickets'[a].redemptions = tickets[a].redemptions + 1
                    /\ tickets'[a].redemptions > tickets'[a].expected_redemptions) ]_vars

\* C19 witness: a committed allocation left a ticket with more redemptions
\* than expected_redemptions, all of them for the same edition offset.
C19_Witness ==
    /\ last.result = "Ok"
    /\ last.supply_snapshot # NA
    /\ ~last.ticket_was_empty
    /\ tickets[last.ticket].expected_redemptions > 0
    /\ tickets[last.ticket].redemptions > tickets[last.ticket].expected_redemptions

\* The expected_redemptions of the ticket an instruction worked on: the one
\* it wrote when it created the ticket, the stored one otherwise.
LedgerExpected(call) ==
    IF call.ticket_was_empty THEN call.expected_redemptions
    ELSE tickets[call.ticket].expected_redemptions

\* C20: every edition handed to mint_edition lies between supply_snapshot + 1
\* and supply_snapshot + expected_redemptions of the ticket it was allocated
\* against: never 0, never at or below the snapshot, never beyond the total
\* the ticket expects.
C20_EditionWithinTicketRange ==
    Called(last, "mint_edition") =>
        /\ last.actual_edition >= last.supply_snapshot + 1
        /\ last.actual_edition <= last.supply_snapshot + LedgerExpected(last)

\* Beside C20: the lower bound alone, and the upper bound for the instructions
\* whose box claims the total the ticket expects.
EditionWithinRangeOfOwnBox ==
    Called(last, "mint_edition") =>
        /\ last.actual_edition >= last.supply_snapshot + 1
        /\ last.actual_edition > 0
        /\ LedgerExpected(last) = TotalClaimed(winning_configs, last.safety_deposit_box_order)
              => last.actual_edition <= last.supply_snapshot + LedgerExpected(last)

====
